---- MODULE Spec2Model ----
(***************************************************************************)
(* A model of youtube_downloader.py: the two formatters (format_size,     *)
(* format_duration), the progress hook EnhancedProgressHook handed to the *)
(* downloader, and the sequence main runs (probe, summary, quality        *)
(* prompt, download).                                                     *)
(*                                                                        *)
(* Python values are records [tag, neg, mag]: tag is "absent" (the key is *)
(* not in the dictionary), "none" (None), "str" (a non-empty, non-numeric *)
(* string) or "int"; an int is a sign and a magnitude, the magnitude a    *)
(* little-endian sequence of base-1024 digits without leading zeros, so   *)
(* that sizes up to the terabyte range stay inside TLC's integers.        *)
(* Rendered text is a sequence of one-character strings.                  *)
(***************************************************************************)
EXTENDS Integers, Sequences, FiniteSets, TLC

\* ------------------------------------------------------------- bounds

\* The sizes given to format_size have at most MaxShift digits (base 1024)
\* under the top one, and the durations given to format_duration at most
\* MaxHours hours (besides 99 and 100 hours).
MaxShift == 5
MaxHours == 2
\* A download session hands the hook at most MaxEvents events, over a playlist
\* of at most MaxCount items, while the clock moves within MaxSpan ticks.
\* At most MaxOdd of the events have a field missing, None, zero or of another
\* type than the downloader documents.
MaxEvents == 3
MaxCount == 2
MaxSpan == 6
MaxOdd == 1
\* The resolver returns playlists of at most MaxEntries entries, and the user
\* answers the quality prompt at most MaxPrompts times.
MaxEntries == 2
MaxPrompts == 3
\* The wall clock (time.time(), in ticks of 100 ms since the epoch) reads at
\* least StartClock during a session.
StartClock == 10

\* 0.5 s, in ticks of 100 ms.
ThrottleTicks == 5

VARIABLES
    fcall,      \* the last formatter call: [fn, arg, res]
    fprev,      \* the format_size call before it
    now,                \* time.time(), in ticks
    last_update_time,   \* EnhancedProgressHook.last_update_time, in ticks
    current_video_info, \* EnhancedProgressHook.current_video_info
    stdout,             \* the lines the hook printed, in order
    count,              \* the session: items of the playlist, 0 for a single video
    item,               \* the item being downloaded
    events,             \* history: the events handled so far, by status, and how
                        \* many of them were odd
    last_status_time,   \* history: the time the last status line was printed
    burst,              \* history: the time of the first 'downloading' event, and
                        \* whether all of them came less than 0.5 s from it
    call                \* history: the call just made (none after another step):
                        \* the event, the hook before it, the lines printed
                        \* before it, what it raised and printed

VARIABLES
    pc,             \* where main is
    has_ffmpeg,     \* main's has_ffmpeg
    info,           \* main's info: what get_content_info returned
    format_id,      \* main's format_id: what select_format returned
    probe,          \* history: what the resolver answered to extract_info
    summary,        \* what display_content_info printed
    prompt,         \* history: the answers read by select_format and the last verdict
    download,       \* what download_content did
    steps,          \* history: the functions main called, in order
    exit_code       \* the status the process exited with, -1 while it runs

mainVars ==
    <<pc, has_ffmpeg, info, format_id, probe, summary, prompt, download, steps, exit_code>>
fmtVars == <<fcall, fprev>>
hookState ==
    <<last_update_time, current_video_info, stdout, events, last_status_time, burst>>
hookVars == <<now, hookState, call, count, item>>
vars == <<fmtVars, hookVars, mainVars>>

\* ------------------------------------------------------ Python values

Absent == [tag |-> "absent", neg |-> FALSE, mag |-> <<>>]
None == [tag |-> "none", neg |-> FALSE, mag |-> <<>>]
Str == [tag |-> "str", neg |-> FALSE, mag |-> <<>>]
Pos(m) == [tag |-> "int", neg |-> FALSE, mag |-> m]
Neg(m) == [tag |-> "int", neg |-> TRUE, mag |-> m]
Zero == Pos(<<>>)

\* isinstance(x, (int, float)): d.get(key) of a missing key is None.
IsNumber(x) == x.tag = "int"

\* x <= 0 for a number.
NonPositive(x) == x.neg \/ x.mag = <<>>

\* Python truthiness: None, a missing key's None and 0 are falsy.
Truthy(x) == x.tag = "str" \/ (x.tag = "int" /\ x.mag # <<>>)

\* ------------------------------------------------------------- digits

Digits == <<"0", "1", "2", "3", "4", "5", "6", "7", "8", "9">>

RECURSIVE DecimalChars(_)
\* The decimal digits of n >= 0, as "%d" writes them.
DecimalChars(n) ==
    IF n < 10 THEN <<Digits[n + 1]>>
    ELSE DecimalChars(n \div 10) \o <<Digits[(n % 10) + 1]>>

\* "%d" where "%02d" is meant: no padding.
NoPad2(n) == DecimalChars(n)

\* "%02d": the decimal digits, zero-padded on the left to two characters.
Pad2(n) == IF n < 10 THEN <<"0">> \o DecimalChars(n) ELSE DecimalChars(n)

RECURSIVE ToInt(_)
\* The integer a magnitude stands for (used only below 1024^3).
ToInt(m) == IF m = <<>> THEN 0 ELSE m[1] + 1024 * ToInt(Tail(m))

NA == <<"N", "/", "A">>

Min(a, b) == IF a <= b THEN a ELSE b

RECURSIVE MagOf(_)
\* The magnitude of an integer n >= 0.
MagOf(n) == IF n = 0 THEN <<>> ELSE <<n % 1024>> \o MagOf(n \div 1024)

PyInt(n) == IF n < 0 THEN Neg(MagOf(0 - n)) ELSE Pos(MagOf(n))

\* a <= b for two magnitudes.
MagLeq(a, b) ==
    \/ Len(a) < Len(b)
    \/ /\ Len(a) = Len(b)
       /\ \/ a = b
          \/ \E i \in 1..Len(a) :
                /\ a[i] < b[i]
                /\ \A j \in (i + 1)..Len(a) : a[j] = b[j]

\* ---------------------------------------------------------- format_size

units == << <<"B">>, <<"K", "B">>, <<"M", "B">>, <<"G", "B">>, <<"T", "B">> >>

\* size > 1024, where size = m / 1024^i (a comparison that lets 1024 through).
SizeAbove1024(m, i) ==
    /\ Len(m) - i >= 2
    /\ ~(Len(m) = i + 2 /\ m[Len(m)] = 1 /\ \A j \in 1..(Len(m) - 1) : m[j] = 0)

\* size >= 1024, where size = m / 1024^i after i divisions by 1024.0: the
\* integer part of size is the digits above the i-th, and it is at least 1024
\* when there are two or more of them.
SizeAtLeast1024(m, i) == Len(m) - i >= 2

RECURSIVE format_size_loop(_, _)
\* while size >= 1024 and i < len(units) - 1: size /= 1024.0; i += 1
format_size_loop(m, i) ==
    IF SizeAtLeast1024(m, i) /\ i < Len(units) - 1
    THEN format_size_loop(m, i + 1)
    ELSE i

RECURSIVE MulSmall(_, _, _)
\* k * m + c for a digit sequence m: the digits of the same length and the carry out.
MulSmall(m, k, c) ==
    IF m = <<>> THEN [d |-> <<>>, c |-> c]
    ELSE LET t == m[1] * k + c
             r == MulSmall(Tail(m), k, t \div 1024)
         IN  [d |-> <<t % 1024>> \o r.d, c |-> r.c]

\* A fraction 0.d (digits d, little-endian, base 1024) against one half:
\* -1 below, 0 equal, 1 above.
CmpHalf(d) ==
    IF d = <<>> THEN -1
    ELSE LET top == d[Len(d)]
             low == \E j \in 1..(Len(d) - 1) : d[j] # 0
         IN  IF top > 512 \/ (top = 512 /\ low) THEN 1
             ELSE IF top = 512 THEN 0
             ELSE -1

\* The value m / 1024^i in tenths, rounded as "%.1f" rounds a float: to the
\* nearest tenth of the exact value, a tie to the even digit.
Tenths(m, i) ==
    LET whole == ToInt(SubSeq(m, i + 1, Len(m)))
        r == MulSmall(SubSeq(m, 1, i), 10, 0)
        t == 10 * whole + r.c
        c == CmpHalf(r.d)
    IN  IF c = 1 \/ (c = 0 /\ t % 2 = 1) THEN t + 1 ELSE t

\* f"{size:.1f}"
OneDecimal(t) == DecimalChars(t \div 10) \o <<".">> \o <<Digits[(t % 10) + 1]>>

format_size(size_bytes) ==
    IF ~IsNumber(size_bytes) \/ NonPositive(size_bytes) THEN NA
    ELSE LET i == format_size_loop(size_bytes.mag, 0)
         IN  OneDecimal(Tenths(size_bytes.mag, i)) \o <<" ">> \o units[i + 1]

\* ------------------------------------------------------ format_duration

format_duration(seconds) ==
    IF ~IsNumber(seconds) \/ NonPositive(seconds) THEN NA
    ELSE LET n == ToInt(seconds.mag)
             h == n \div 3600
             m == (n % 3600) \div 60
             s == n % 60
         IN  IF h > 0
             THEN Pad2(h) \o <<":">> \o Pad2(m) \o <<":">> \o Pad2(s)
             ELSE Pad2(m) \o <<":">> \o Pad2(s)

\* ------------------------------------------------- EnhancedProgressHook

\* A path: "absent", "none" or "path" with its components, the last one the
\* file name (Path(p).name).
NoPath == [tag |-> "absent", parts |-> <<>>]
NonePath == [tag |-> "none", parts |-> <<>>]
PathOf(parts) == [tag |-> "path", parts |-> parts]
FileName(p) == p.parts[Len(p.parts)]

\* info_dict: "absent", "none", "str" (not a dictionary) or "dict".
InfoOf(tag, index, n, filepath) ==
    [tag |-> tag, playlist_index |-> index, playlist_count |-> n, filepath |-> filepath]
NoInfo == InfoOf("absent", Absent, Absent, NoPath)
NoneInfo == InfoOf("none", Absent, Absent, NoPath)
EmptyDict == InfoOf("dict", Absent, Absent, NoPath)

\* d.get('info_dict', {})
InfoDict(d) == IF d.info_dict.tag = "absent" THEN EmptyDict ELSE d.info_dict

\* d.get('filename', '...')
FilenameArg(d) ==
    IF d.filename.tag = "absent" THEN PathOf(<< <<".", ".", ".">> >>) ELSE d.filename

\* info_dict.get('filepath', 'file')
FilepathArg(idict) ==
    IF idict.filepath.tag = "absent" THEN PathOf(<< <<"f", "i", "l", "e">> >>)
    ELSE idict.filepath

\* d.get('downloaded_bytes', 0)
Downloaded(d) == IF d.downloaded_bytes = Absent THEN Zero ELSE d.downloaded_bytes

\* d.get('total_bytes') or d.get('total_bytes_estimate')
Total(d) ==
    LET a == IF d.total_bytes = Absent THEN None ELSE d.total_bytes
        b == IF d.total_bytes_estimate = Absent THEN None ELSE d.total_bytes_estimate
    IN  IF Truthy(a) THEN a ELSE b

\* d.get('speed')
Speed(d) == IF d.speed = Absent THEN None ELSE d.speed

\* d.get('eta', 0)
Eta(d) == IF d.eta = Absent THEN Zero ELSE d.eta

\* name[:40]
First40(name) == SubSeq(name, 1, Min(40, Len(name)))

\* f"[{playlist_index}/{playlist_count}] "
LabelText(index, n) ==
    <<"[">> \o DecimalChars(ToInt(index.mag)) \o <<"/">> \o DecimalChars(ToInt(n.mag))
        \o <<"]", " ">>

\* The label after lines 98-101.
LabelAfter(label, idict) ==
    IF Truthy(idict.playlist_index) /\ Truthy(idict.playlist_count)
    THEN LabelText(idict.playlist_index, idict.playlist_count)
    ELSE label

\* (downloaded / total) * 100 raises TypeError unless both are numbers; total
\* is not 0 here, being truthy.
PercentRaises(d) == Truthy(Total(d)) /\ ~(IsNumber(Downloaded(d)) /\ IsNumber(Total(d)))

RECURSIVE PadLeft(_, _)
PadLeft(t, w) == IF Len(t) >= w THEN t ELSE PadLeft(<<" ">> \o t, w)

\* f"{(downloaded / total) * 100:5.1f}%" if total else "---.-%", for
\* non-negative numbers below 2^20 whose quotient is a binary fraction.
PercentStr(d) ==
    IF Truthy(Total(d))
    THEN LET a == ToInt(Downloaded(d).mag)
             b == ToInt(Total(d).mag)
         IN  PadLeft(OneDecimal((2 * a * 1000 + b) \div (2 * b)), 5) \o <<"%">>
    ELSE <<"-", "-", "-", ".", "-", "%">>

\* f"{format_size(speed)}/s" if speed else "N/A"
SpeedStr(d) == IF Truthy(Speed(d)) THEN format_size(Speed(d)) \o <<"/", "s">> ELSE NA

\* f"ETA: {format_duration(eta_seconds)}" if eta_seconds else ""
EtaStr(d) ==
    IF Truthy(Eta(d)) THEN <<"E", "T", "A", ":", " ">> \o format_duration(Eta(d)) ELSE <<>>

\* The status line of lines 113-118.
StatusLine(label, d) ==
    [kind |-> "status",
     label |-> label,
     percent |-> PercentStr(d),
     downloaded |-> format_size(Downloaded(d)),
     total |-> format_size(Total(d)),
     speed |-> SpeedStr(d),
     eta |-> EtaStr(d),
     name |-> First40(FileName(FilenameArg(d)))]

\* The completion line of line 122.
CompletedLine(label, name) ==
    [kind |-> "completed", label |-> label, percent |-> <<>>, downloaded |-> <<>>,
     total |-> <<>>, speed |-> <<>>, eta |-> <<>>, name |-> name]

\* What a call leaves: the hook's two fields, the line printed (if any) and
\* the exception raised (if any).
Result(lut, label, out, raised) ==
    [lut |-> lut, label |-> label, out |-> out, raised |-> raised]

\* current_time - self.last_update_time < 0.5
Throttled(t, lut) == t - lut < ThrottleTicks

\* Lines 91-118: a 'downloading' event d at time t.
OnDownloading(self, d, t) ==
    IF Throttled(t, self.lut) THEN Result(self.lut, self.label, <<>>, "")
    ELSE IF InfoDict(d).tag # "dict" THEN Result(t, self.label, <<>>, "AttributeError")
    ELSE LET label == LabelAfter(self.label, InfoDict(d))
         IN  IF FilenameArg(d).tag # "path" THEN Result(t, label, <<>>, "TypeError")
             ELSE IF PercentRaises(d) THEN Result(t, label, <<>>, "TypeError")
             ELSE Result(t, label, <<StatusLine(label, d)>>, "")

\* Lines 120-122: a 'finished' event d.
OnFinished(self, d) ==
    IF InfoDict(d).tag # "dict" THEN Result(self.lut, self.label, <<>>, "AttributeError")
    ELSE IF FilepathArg(InfoDict(d)).tag # "path"
    THEN Result(self.lut, self.label, <<>>, "TypeError")
    ELSE Result(self.lut, self.label,
                <<CompletedLine(self.label, FileName(FilepathArg(InfoDict(d))))>>, "")

\* EnhancedProgressHook.__call__(d) at time t.
HookCall(self, d, t) ==
    IF d.status = "downloading" THEN OnDownloading(self, d, t)
    ELSE IF d.status = "finished" THEN OnFinished(self, d)
    ELSE Result(self.lut, self.label, <<>>, "")

RECURSIVE Fill(_, _)
\* k times d.
Fill(k, d) == IF k = 0 THEN <<>> ELSE <<d>> \o Fill(k - 1, d)

NoCall == [fn |-> "none", arg |-> Absent, res |-> <<>>]

\* ------------------------------------------------------------------ main

\* What extract_info gives: an exception, None, or a dictionary: {}, a video
\* (no 'entries' key) or a playlist with its entries, each a dictionary (TRUE)
\* or None (FALSE).
Raises(e) == [tag |-> "raise", error |-> e, type |-> "", entries |-> <<>>, duration |-> None]
NoneResult == [tag |-> "none", error |-> "", type |-> "", entries |-> <<>>, duration |-> None]
EmptyResult == [tag |-> "empty", error |-> "", type |-> "", entries |-> <<>>, duration |-> None]
Video(duration) ==
    [tag |-> "dict", error |-> "", type |-> "video", entries |-> <<>>, duration |-> duration]
Playlist(type, entries) ==
    [tag |-> "dict", error |-> "", type |-> type, entries |-> entries, duration |-> None]

EntryLists == UNION {[1..n -> BOOLEAN] : n \in 0..MaxEntries}

ResolverResults ==
    {Raises(e) : e \in {"ExtractorError", "DownloadError", "OSError"}}
    \cup {NoneResult, EmptyResult}
    \cup {Video(x) : x \in {Absent, None, Zero, PyInt(125)}}
    \cup {Playlist(t, e) : t \in {"playlist", "multi_video"}, e \in EntryLists}

\* 'entries' in info
HasEntries(r) == r.tag = "dict" /\ r.type \in {"playlist", "multi_video"}

\* not info or ('entries' in info and not info['entries'])
NothingFound(r) == r.tag \in {"none", "empty"} \/ (HasEntries(r) /\ r.entries = <<>>)

\* get_content_info, given what extract_info did: the value returned
\* ("raise" when the exception is not one it catches).
get_content_info(r) ==
    IF r.tag = "raise"
    THEN IF r.error \in {"ExtractorError", "DownloadError"} THEN NoneResult ELSE r
    ELSE IF NothingFound(r) THEN NoneResult
    ELSE r

\* [e for e in info.get('entries', []) if e]
ValidEntries(r) == Cardinality({i \in 1..Len(r.entries) : r.entries[i]})

\* display_content_info: what it prints of the content.
display_content_info(r) ==
    IF r.type \in {"playlist", "multi_video"}
    THEN [type |-> "Playlist", videos |-> ValidEntries(r), duration |-> <<>>]
    ELSE [type |-> "Single Video", videos |-> 0,
          duration |-> format_duration(IF r.duration = Absent THEN Zero ELSE r.duration)]

\* The formats of select_format's options.
Best == "bestvideo+bestaudio/best"
FullHD == "bestvideo[height<=1080][ext=mp4]+bestaudio[ext=m4a]/best[height<=1080]"
Good == "bestvideo[height<=720][ext=mp4]+bestaudio[ext=m4a]/best[height<=720]"
Audio == "bestaudio/best"
NoFormat == "None"

\* An options dictionary that offers the audio format whether or not FFmpeg
\* was found.
OptionsWithAudio(ffmpeg) ==
    [k \in {<<"1">>, <<"2">>, <<"3">>, <<"4">>} |->
        IF k = <<"1">> THEN Best ELSE IF k = <<"2">> THEN FullHD
        ELSE IF k = <<"3">> THEN Good ELSE Audio]

\* Lines 192-199: the options, keyed by the text to type.
Options(ffmpeg) ==
    [k \in {<<"1">>, <<"2">>, <<"3">>} \cup (IF ffmpeg THEN {<<"4">>} ELSE {}) |->
        IF k = <<"1">> THEN Best ELSE IF k = <<"2">> THEN FullHD
        ELSE IF k = <<"3">> THEN Good ELSE Audio]

RECURSIVE LStrip(_)
LStrip(t) == IF t # <<>> /\ t[1] = " " THEN LStrip(Tail(t)) ELSE t
RECURSIVE RStrip(_)
RStrip(t) == IF t # <<>> /\ t[Len(t)] = " " THEN RStrip(SubSeq(t, 1, Len(t) - 1)) ELSE t
\* str.strip()
Strip(t) == RStrip(LStrip(t))

\* str.lower(), for the letters typed here.
Lower(t) == [i \in 1..Len(t) |-> IF t[i] = "Q" THEN "q" ELSE t[i]]

\* One turn of select_format's loop on the text typed: "quit", a format, or
\* "invalid" (the prompt repeats).
select_format_turn(ffmpeg, typed) ==
    LET choice == Strip(typed)
    IN  IF Lower(choice) \in {<<"q">>, <<"q", "u", "i", "t">>} THEN "quit"
        ELSE IF choice \in DOMAIN Options(ffmpeg) THEN Options(ffmpeg)[choice]
        ELSE "invalid"

Typed ==
    {<<"1">>, <<"2">>, <<"3">>, <<"4">>, <<"5">>, <<>>, <<" ", "4", " ">>, <<"q">>, <<"Q">>,
     <<"q", "u", "i", "t">>, <<"4", "4">>}

\* Lines 298-299: if not info: sys.exit(1)
AfterProbe(r) == IF r.tag # "dict" THEN "exit1" ELSE "display"

\* main goes on to download whatever select_format returned.
AfterPromptAlways(f) == "download"

\* Lines 304-306: if not format_id: sys.exit(0)
AfterPrompt(f) == IF f = NoFormat THEN "exit0" ELSE "download"

NoSummary == [type |-> "", videos |-> 0, duration |-> <<>>]
NoPrompt == [asked |-> 0, typed |-> <<>>, verdict |-> ""]
NoDownload == [started |-> FALSE, format |-> NoFormat, postprocessors |-> FALSE,
               template |-> "", result |-> ""]

MainIdle ==
    /\ pc = "idle"
    /\ has_ffmpeg = FALSE
    /\ info = NoneResult
    /\ format_id = NoFormat
    /\ probe = NoneResult
    /\ summary = NoSummary
    /\ prompt = NoPrompt
    /\ download = NoDownload
    /\ steps = <<>>
    /\ exit_code = -1

\* main as the script starts it.
MainEntry ==
    /\ pc = "check_dependencies"
    /\ has_ffmpeg = FALSE
    /\ info = NoneResult
    /\ format_id = NoFormat

\* download_content called on its own, with any format and either has_ffmpeg.
DownloadEntry ==
    /\ pc = "download_content"
    /\ has_ffmpeg \in BOOLEAN
    /\ info \in {Video(PyInt(125)), Playlist("playlist", <<TRUE>>)}
    /\ format_id \in {Best, FullHD, Good, Audio}

MainStart ==
    /\ MainEntry \/ DownloadEntry
    /\ probe = NoneResult
    /\ summary = NoSummary
    /\ prompt = NoPrompt
    /\ download = NoDownload
    /\ steps = <<>>
    /\ exit_code = -1

Exit(status) == pc' = "exited" /\ exit_code' = status

\* Line 295: check_dependencies runs ffmpeg -version; an exception it does not
\* catch ends main with status 1 (lines 316-319).
CheckDependencies ==
    /\ pc = "check_dependencies"
    /\ steps' = Append(steps, "check_dependencies")
    /\ \E outcome \in {"found", "missing", "error"} :
            IF outcome = "error"
            THEN Exit(1) /\ UNCHANGED has_ffmpeg
            ELSE /\ has_ffmpeg' = (outcome = "found")
                 /\ pc' = "get_content_info"
                 /\ UNCHANGED exit_code
    /\ UNCHANGED <<info, format_id, probe, summary, prompt, download, fmtVars, hookVars>>

\* Lines 297-299: the probe, and main's exit when it gives nothing.
GetContentInfo ==
    /\ pc = "get_content_info"
    /\ steps' = Append(steps, "get_content_info")
    /\ \E r \in ResolverResults :
            LET got == get_content_info(r)
            IN  /\ probe' = r
                /\ IF got.tag = "raise"
                   THEN Exit(1) /\ UNCHANGED info
                   ELSE /\ info' = got
                        /\ IF AfterProbe(got) = "exit1"
                           THEN Exit(1)
                           ELSE pc' = "display_content_info" /\ UNCHANGED exit_code
    /\ UNCHANGED <<has_ffmpeg, format_id, summary, prompt, download, fmtVars, hookVars>>

\* Line 301: the summary. Of None there is nothing to read: info.get raises
\* and main ends with status 1.
DisplayContentInfo ==
    /\ pc = "display_content_info"
    /\ steps' = Append(steps, "display_content_info")
    /\ IF info.tag # "dict"
       THEN Exit(1) /\ UNCHANGED summary
       ELSE /\ summary' = display_content_info(info)
            /\ pc' = "select_format"
            /\ UNCHANGED exit_code
    /\ UNCHANGED <<has_ffmpeg, info, format_id, probe, prompt, download, fmtVars, hookVars>>

\* Lines 303-306: one answer to select_format's prompt, and main's exit when
\* the user quits.
SelectFormat ==
    /\ pc = "select_format"
    /\ prompt.asked < MaxPrompts
    /\ steps' = IF prompt.asked = 0 THEN Append(steps, "select_format") ELSE steps
    /\ \E typed \in Typed :
            LET v == select_format_turn(has_ffmpeg, typed)
                f == IF v = "quit" THEN NoFormat ELSE v
            IN  /\ prompt' = [asked |-> prompt.asked + 1, typed |-> typed,
                              verdict |-> IF v \in {"quit", "invalid"} THEN v ELSE "selected"]
                /\ IF v = "invalid"
                   THEN UNCHANGED <<pc, format_id, exit_code>>
                   ELSE /\ format_id' = f
                        /\ IF AfterPrompt(f) = "exit0"
                           THEN Exit(0)
                           ELSE pc' = "download_content" /\ UNCHANGED exit_code
    /\ UNCHANGED <<has_ffmpeg, info, probe, summary, download, fmtVars, hookVars>>

\* Ctrl-C while main runs: KeyboardInterrupt, status 0 (lines 313-315).
Interrupt ==
    /\ pc \notin {"idle", "exited"}
    /\ Exit(0)
    /\ UNCHANGED <<has_ffmpeg, info, format_id, probe, summary, prompt, download, steps,
                   fmtVars, hookVars>>

\* Line 205: input() at the end of the input raises EOFError, which ends main
\* with status 1 (lines 316-319).
EndOfInput ==
    /\ pc = "select_format"
    /\ Exit(1)
    /\ UNCHANGED <<has_ffmpeg, info, format_id, probe, summary, prompt, download, steps,
                   fmtVars, hookVars>>

\* Line 308, lines 213-263: download_content. The directory may fail to be
\* made (status 1); the audio format without FFmpeg returns before the
\* download; otherwise the download starts, and main returns (status 0) unless
\* the download raises (status 1).
DownloadContent ==
    /\ pc = "download_content"
    /\ steps' = Append(steps, "download_content")
    /\ \E mkdir \in {"ok", "OSError"}, result \in {"0", "not 0", "raise"} :
            IF mkdir = "OSError"
            THEN Exit(1) /\ UNCHANGED download
            ELSE IF format_id = Audio /\ ~has_ffmpeg
            THEN Exit(0) /\ UNCHANGED download
            ELSE /\ download' =
                        [started |-> TRUE, format |-> format_id,
                         postprocessors |-> format_id = Audio,
                         template |-> IF info.type \in {"playlist", "multi_video"}
                                      THEN "playlist" ELSE "video",
                         result |-> result]
                 /\ Exit(IF result = "raise" THEN 1 ELSE 0)
    /\ UNCHANGED <<has_ffmpeg, info, format_id, probe, summary, prompt, fmtVars, hookVars>>

MainNext ==
    \/ CheckDependencies
    \/ GetContentInfo
    \/ DisplayContentInfo
    \/ SelectFormat
    \/ EndOfInput
    \/ Interrupt
    \/ DownloadContent

\* ------------------------------------------------- a download session

\* The hook as constructed (lines 84-86), before any event.
NoHookCall == [d |-> [status |-> "none"], seq |-> 0, early |-> FALSE,
               pre |-> [lut |-> 0, label |-> <<>>], n |-> 0, stamped |-> FALSE,
               raised |-> "", out |-> <<>>]
NoEvents == [downloading |-> 0, finished |-> 0, other |-> 0, odd |-> 0]
NoBurst == [t0 |-> 0, near |-> TRUE]

HookIdle ==
    /\ now = StartClock
    /\ last_update_time = 0
    /\ current_video_info = <<>>
    /\ stdout = <<>>
    /\ count = 0
    /\ item = 0
    /\ events = NoEvents
    /\ last_status_time = 0
    /\ burst = NoBurst
    /\ call = NoHookCall

HookInit ==
    /\ now = StartClock
    /\ last_update_time = 0
    /\ current_video_info = <<>>
    /\ stdout = <<>>
    /\ count \in 0..MaxCount
    /\ item = IF count = 0 THEN 0 ELSE 1
    /\ events = NoEvents
    /\ last_status_time = 0
    /\ burst = NoBurst
    /\ call = NoHookCall

\* The file of item i.
ItemPath(i) ==
    PathOf(<< <<"o", "u", "t">>, <<"v">> \o DecimalChars(i) \o <<".", "m", "p", "4">> >>)

\* A file whose name has 41 characters.
LongPath == PathOf(<< <<"o", "u", "t">>, Fill(41, "x") >>)

\* The info_dict the downloader holds for the current item: its place in the
\* playlist, or no place for a single video.
ItemInfo ==
    IF count = 0 THEN InfoOf("dict", None, None, ItemPath(0))
    ELSE InfoOf("dict", PyInt(item), PyInt(count), ItemPath(item))

\* A 'downloading' event with every field present and of its type.
PlainDownloading ==
    [status |-> "downloading", info_dict |-> ItemInfo, filename |-> ItemPath(item),
     downloaded_bytes |-> PyInt(1536), total_bytes |-> PyInt(3072),
     total_bytes_estimate |-> Absent, speed |-> PyInt(1024), eta |-> PyInt(65)]

\* The same with one field (total_bytes with its estimate) missing, None, zero
\* or of another type.
DownloadingEvents ==
    {PlainDownloading}
    \cup {[PlainDownloading EXCEPT !.info_dict = x] : x \in {NoInfo, NoneInfo}}
    \cup {[PlainDownloading EXCEPT !.filename = x] : x \in {NoPath, NonePath, LongPath}}
    \cup {[PlainDownloading EXCEPT !.downloaded_bytes = x] : x \in {Absent, None, Str, Zero}}
    \cup {[PlainDownloading EXCEPT !.total_bytes = x] : x \in {Absent, None, Str, Zero}}
    \cup {[PlainDownloading EXCEPT !.total_bytes = x, !.total_bytes_estimate = PyInt(2048)] :
            x \in {Absent, None, Zero}}
    \cup {[PlainDownloading EXCEPT !.speed = x] : x \in {Absent, None, Str, Zero}}
    \cup {[PlainDownloading EXCEPT !.eta = x] : x \in {Absent, None, Str, Zero}}

PlainFinished ==
    [status |-> "finished", info_dict |-> ItemInfo, filename |-> ItemPath(item),
     downloaded_bytes |-> PyInt(3072), total_bytes |-> PyInt(3072),
     total_bytes_estimate |-> Absent, speed |-> Absent, eta |-> Absent]

FinishedEvents ==
    {PlainFinished}
    \cup {[PlainFinished EXCEPT !.info_dict = x] : x \in {NoInfo, NoneInfo}}
    \cup {[PlainFinished EXCEPT !.info_dict.filepath = x] : x \in {NoPath, NonePath}}

OtherEvents == {[PlainFinished EXCEPT !.status = "error"]}

\* The events with every field present and of its type.
PlainEvents == {PlainDownloading, PlainFinished} \cup OtherEvents

\* What the history keeps of a printed line: its kind, its label, the event
\* that printed it and, for a status line, the time since the status line
\* before it (ThrottleTicks when there is none, or more time than that).
Header(line, seq, t) ==
    [kind |-> line.kind, label |-> line.label, seq |-> seq,
     gap |-> IF line.kind # "status" THEN 0
             ELSE IF last_status_time = 0 THEN ThrottleTicks
             ELSE Min(t - last_status_time, ThrottleTicks)]

Abs(x) == IF x < 0 THEN 0 - x ELSE x

\* The hook handles event d: the call, and the history of it.
Handle(d) ==
    LET self == [lut |-> last_update_time, label |-> current_video_info]
        r == HookCall(self, d, now)
        seq == events.downloading + events.finished + events.other + 1
        printed == r.out # <<>>
        odd == IF d \in PlainEvents THEN 0 ELSE 1
    IN  /\ last_update_time' = r.lut
        /\ current_video_info' = r.label
        /\ stdout' = IF printed THEN Append(stdout, Header(r.out[1], seq, now)) ELSE stdout
        /\ last_status_time' =
                IF printed /\ r.out[1].kind = "status" THEN now ELSE last_status_time
        /\ events' = IF d.status = "downloading"
                     THEN [events EXCEPT !.downloading = @ + 1, !.odd = @ + odd]
                     ELSE IF d.status = "finished"
                     THEN [events EXCEPT !.finished = @ + 1, !.odd = @ + odd]
                     ELSE [events EXCEPT !.other = @ + 1]
        /\ burst' = IF d.status # "downloading" THEN burst
                    ELSE IF burst.t0 = 0 THEN [t0 |-> now, near |-> TRUE]
                    ELSE [burst EXCEPT !.near = burst.near /\ Abs(now - burst.t0) < ThrottleTicks]
        /\ call' = [d |-> d, seq |-> seq,
                    early |-> d.status = "downloading" /\ now - self.lut < ThrottleTicks,
                    pre |-> self, n |-> Len(stdout),
                    stamped |-> r.lut = now,
                    raised |-> r.raised, out |-> r.out]
        /\ UNCHANGED <<now, count, item, fmtVars, mainVars>>

\* The downloader reports progress, the end of a file, or an error.
CanEmit == events.downloading + events.finished + events.other < MaxEvents

EmitDownloading ==
    /\ CanEmit
    /\ \E d \in IF events.odd < MaxOdd THEN DownloadingEvents ELSE {PlainDownloading} :
            Handle(d)

EmitFinished ==
    /\ CanEmit
    /\ \E d \in IF events.odd < MaxOdd THEN FinishedEvents ELSE {PlainFinished} :
            Handle(d)

EmitOther ==
    /\ CanEmit
    /\ \E d \in OtherEvents : Handle(d)

\* The downloader goes on to the next item of the playlist.
NextItem ==
    /\ item < count
    /\ item' = item + 1
    /\ call' = NoHookCall
    /\ UNCHANGED <<now, hookState, count, fmtVars, mainVars>>

\* Time passes: 100 ms.
Tick ==
    /\ now < StartClock + MaxSpan
    /\ now' = now + 1
    /\ call' = NoHookCall
    /\ UNCHANGED <<hookState, count, item, fmtVars, mainVars>>

\* The wall clock is set back by 100 ms (time.time() is not monotonic).
ClockBack ==
    /\ now > StartClock
    /\ now' = now - 1
    /\ call' = NoHookCall
    /\ UNCHANGED <<hookState, count, item, fmtVars, mainVars>>

HookNext ==
    \/ EmitDownloading
    \/ EmitFinished
    \/ EmitOther
    \/ NextItem
    \/ Tick
    \/ ClockBack

FmtIdle == fcall = NoCall /\ fprev = NoCall

HookSessionInit == HookInit /\ FmtIdle /\ MainIdle

SpecHook == HookSessionInit /\ [][HookNext]_vars

\* A run of main.
MainInit == MainStart /\ FmtIdle /\ HookIdle

SpecMain == MainInit /\ [][MainNext]_vars

\* ------------------------------------------------- the formatters, called

TopDigits == {1, 7, 512, 1023}
FillDigits == {0, 256, 512, 1023}

\* float(size_bytes) is the integer itself below 2^53 = 8 * 1024^5, and the
\* divisions by 1024.0 are exact: the sizes are taken below that.
ExactFloat(m) == Len(m) <= 5 \/ (Len(m) = 6 /\ m[6] < 8)

SizeMags ==
    {m \in {Fill(k, d) \o <<t>> : k \in 0..MaxShift, d \in FillDigits, t \in TopDigits} :
        ExactFloat(m)}

SizeInputs == {Absent, None, Str, Zero, Neg(<<1>>), Neg(<<0, 1>>)} \cup {Pos(m) : m \in SizeMags}

DurationInputs ==
    {Absent, None, Str, Zero, Neg(<<1>>), Neg(<<65>>)}
    \cup {PyInt(h * 3600 + m * 60 + s) :
            h \in (0..MaxHours) \cup {99, 100},
            m \in {0, 1, 9, 10, 59},
            s \in {0, 1, 5, 9, 10, 59}}

FmtInit ==
    /\ fcall = NoCall
    /\ fprev = NoCall
    /\ HookIdle
    /\ MainIdle

CallFormatSize ==
    \E x \in SizeInputs :
        /\ fcall' = [fn |-> "format_size", arg |-> x, res |-> format_size(x)]
        /\ fprev' = IF fcall.fn = "format_size" THEN fcall ELSE NoCall
        /\ UNCHANGED <<hookVars, mainVars>>

CallFormatDuration ==
    \E x \in DurationInputs :
        /\ fcall' = [fn |-> "format_duration", arg |-> x, res |-> format_duration(x)]
        /\ fprev' = NoCall
        /\ UNCHANGED <<hookVars, mainVars>>

FmtNext == CallFormatSize \/ CallFormatDuration

SpecFormat == FmtInit /\ [][FmtNext]_vars

\* ------------------------------------------------------ reading text back

\* The place of the first ch in t, 0 when there is none.
IndexOf(t, ch) ==
    IF \E i \in 1..Len(t) : t[i] = ch
    THEN CHOOSE i \in 1..Len(t) : t[i] = ch /\ \A j \in 1..(i - 1) : t[j] # ch
    ELSE 0

IsDigits(t) == t # <<>> /\ \A i \in 1..Len(t) : \E d \in 1..10 : Digits[d] = t[i]

DigitVal(c) == (CHOOSE d \in 1..10 : Digits[d] = c) - 1

RECURSIVE ParseNat(_)
ParseNat(t) ==
    IF t = <<>> THEN 0
    ELSE 10 * ParseNat(SubSeq(t, 1, Len(t) - 1)) + DigitVal(t[Len(t)])

RECURSIVE SplitOn(_, _)
\* The fields of t between the characters ch.
SplitOn(t, ch) ==
    LET i == IndexOf(t, ch)
    IN  IF i = 0 THEN <<t>>
        ELSE <<SubSeq(t, 1, i - 1)>> \o SplitOn(SubSeq(t, i + 1, Len(t)), ch)

\* A text "<digits>.<digit> <unit>": the number written, in tenths, and the
\* index (0..4) of the unit; -1 when the text has no such form.
NumberPart(t) == SubSeq(t, 1, IndexOf(t, " ") - 1)
ShownTenths(t) ==
    LET n == NumberPart(t)
        dot == IndexOf(n, ".")
    IN  IF /\ IndexOf(t, " ") > 0
           /\ dot > 1
           /\ Len(n) = dot + 1
           /\ IsDigits(SubSeq(n, 1, dot - 1))
           /\ IsDigits(<<n[Len(n)]>>)
        THEN 10 * ParseNat(SubSeq(n, 1, dot - 1)) + DigitVal(n[Len(n)])
        ELSE -1
ShownUnit(t) ==
    LET u == SubSeq(t, IndexOf(t, " ") + 1, Len(t))
    IN  IF \E k \in 1..Len(units) : units[k] = u
        THEN (CHOOSE k \in 1..Len(units) : units[k] = u) - 1
        ELSE -1

IsPositive(x) == IsNumber(x) /\ ~NonPositive(x)

\* ----------------------------------------------------------------- C5

\* What C5 says of one format_size call besides the bound on the value shown:
\* "N/A" for an absent or non-positive input; otherwise the unit has index
\* min(4, divisions by 1024 needed to bring the value below 1024), the value
\* before rounding is below 1024 unless the unit is TB, and the text is that
\* value with one decimal place (between the value's integer part and the next
\* integer) followed by the unit.
SizeCallOK(c) ==
    IF ~IsPositive(c.arg) THEN c.res = NA
    ELSE LET m == c.arg.mag
             e == Min(4, Len(m) - 1)
             whole == ToInt(SubSeq(m, e + 1, Len(m)))
         IN  /\ ShownUnit(c.res) = e
             /\ e < 4 => whole < 1024
             /\ ShownTenths(c.res) >= 10 * whole
             /\ ShownTenths(c.res) <= 10 * whole + 10
             /\ ShownTenths(c.res) >= 1

\* The unit never decreases as n grows, over two successive calls.
UnitMonotone ==
    (/\ fprev.fn = "format_size" /\ fcall.fn = "format_size"
     /\ IsPositive(fprev.arg) /\ IsPositive(fcall.arg)
     /\ MagLeq(fprev.arg.mag, fcall.arg.mag))
    => ShownUnit(fprev.res) <= ShownUnit(fcall.res)

SizeExamples ==
    /\ fcall.arg = PyInt(1536) => fcall.res = <<"1", ".", "5", " ", "K", "B">>
    /\ fcall.arg = Pos(<<0, 0, 0, 1>>) => fcall.res = <<"1", ".", "0", " ", "G", "B">>
    /\ fcall.arg = Zero => fcall.res = NA

\* C5 as amended: format_size returns "N/A" for every absent or non-positive
\* input; for n > 0 the unit has index min(4, divisions by 1024 needed to bring
\* the value below 1024), so the value before rounding is below 1024 unless the
\* unit is TB, while the value shown, rounded to one decimal place, can read
\* 1024.0; the unit never decreases as n grows; 1536 gives "1.5 KB" and
\* 1073741824 gives "1.0 GB".
C5_FormatSizeRoundedValue ==
    fcall.fn = "format_size" =>
        /\ SizeCallOK(fcall)
        /\ IsPositive(fcall.arg) /\ ShownUnit(fcall.res) < 4
                => ShownTenths(fcall.res) <= 10240
        /\ UnitMonotone
        /\ SizeExamples

\* C5 as claimed: the same, with the value shown below 1024 unless the unit
\* is TB.
C5_FormatSizeShownBelow1024 ==
    fcall.fn = "format_size" =>
        /\ SizeCallOK(fcall)
        /\ IsPositive(fcall.arg) /\ ShownUnit(fcall.res) < 4
                => ShownTenths(fcall.res) < 10240
        /\ UnitMonotone
        /\ SizeExamples

\* C5's case: 1048575 bytes, that is 1023.999 KB, after a smaller size.
C5_Witness ==
    /\ fcall.fn = "format_size"
    /\ fcall.arg = Pos(<<1023, 1023>>)
    /\ fcall.res = <<"1", "0", "2", "4", ".", "0", " ", "K", "B">>
    /\ fprev.fn = "format_size"
    /\ fprev.arg = PyInt(1536)

\* ----------------------------------------------------------------- C6

\* C6: format_duration returns "N/A" for every absent or non-positive input;
\* for an integer s > 0 the text is the fields h = s div 3600,
\* m = (s mod 3600) div 60, sec = s mod 60 (h*3600 + m*60 + sec = s, m < 60,
\* sec < 60), written hh:mm:ss when h > 0 and mm:ss otherwise, each field
\* zero-padded to two digits; 65 gives "01:05" and 3661 gives "01:01:01".
C6_FormatDurationFields ==
    fcall.fn = "format_duration" =>
        IF ~IsPositive(fcall.arg) THEN fcall.res = NA
        ELSE LET n == ToInt(fcall.arg.mag)
                 f == SplitOn(fcall.res, ":")
                 k == Len(f)
                 h == IF k = 3 THEN ParseNat(f[1]) ELSE 0
                 m == ParseNat(f[k - 1])
                 sec == ParseNat(f[k])
             IN  /\ k \in {2, 3}
                 /\ \A i \in 1..k : IsDigits(f[i]) /\ Len(f[i]) >= 2
                 /\ Len(f[k]) = 2 /\ Len(f[k - 1]) = 2
                 /\ k = 3 => (Len(f[1]) = 2 <=> h < 100)
                 /\ k = 3 <=> n \div 3600 > 0
                 /\ h = n \div 3600
                 /\ m = (n % 3600) \div 60
                 /\ sec = n % 60
                 /\ h * 3600 + m * 60 + sec = n /\ m < 60 /\ sec < 60
                 /\ n = 65 => fcall.res = <<"0", "1", ":", "0", "5">>
                 /\ n = 3661 => fcall.res = <<"0", "1", ":", "0", "1", ":", "0", "1">>

\* C6's case: one hour, one minute and one second.
C6_Witness ==
    /\ fcall.fn = "format_duration"
    /\ fcall.arg = PyInt(3661)
    /\ fcall.res = <<"0", "1", ":", "0", "1", ":", "0", "1">>

\* ----------------------------------------------------------------- C1

LastLine == stdout[Len(stdout)]

\* C1: a 'downloading' event that comes less than 0.5 s after
\* last_update_time is dropped: nothing is printed, and last_update_time and
\* current_video_info stay as they were; any other 'downloading' event prints
\* exactly one status line and sets last_update_time to its time. So two
\* status lines in a row are at least 0.5 s apart, and a call prints nothing
\* but the line of its own event.
C1_ThrottleContract ==
    /\ call.d.status = "downloading" =>
            IF call.early
            THEN /\ Len(stdout) = call.n
                 /\ last_update_time = call.pre.lut
                 /\ current_video_info = call.pre.label
            ELSE /\ Len(stdout) = call.n + 1
                 /\ LastLine.kind = "status"
                 /\ LastLine.seq = call.seq
                 /\ call.stamped
    /\ \A i \in 1..Len(stdout) : stdout[i].kind = "status" => stdout[i].gap >= ThrottleTicks
    /\ \A i \in 1..Len(stdout) : \A j \in 1..Len(stdout) : i < j => stdout[i].seq < stdout[j].seq

\* ----------------------------------------------------------------- C2

\* C2: every 'finished' event prints exactly one completion line, whatever the
\* time since the last status line; the line holds the file name of the path
\* and the current label, and last_update_time stays as it was.
C2_FinishedAlwaysPrinted ==
    call.d.status = "finished" =>
        /\ Len(stdout) = call.n + 1
        /\ LastLine.kind = "completed"
        /\ LastLine.label = call.pre.label
        /\ InfoDict(call.d).tag = "dict" /\ InfoDict(call.d).filepath.tag = "path"
                => call.out[1].name = FileName(InfoDict(call.d).filepath)
        /\ last_update_time = call.pre.lut

\* ----------------------------------------------------------------- C3

\* C3: the hook never raises, whatever fields of the event are missing, None,
\* zero or of another type, and it writes the placeholders "---.-%" and "N/A"
\* for the fields it cannot render.
C3_HookNeverRaises ==
    /\ call.raised = ""
    /\ call.d.status = "downloading" /\ call.out # <<>> =>
            /\ ~IsPositive(Total(call.d)) =>
                    /\ call.out[1].percent = <<"-", "-", "-", ".", "-", "%">>
                    /\ call.out[1].total = NA
            /\ ~IsPositive(Downloaded(call.d)) => call.out[1].downloaded = NA
            /\ ~Truthy(Speed(call.d)) => call.out[1].speed = NA

\* ----------------------------------------------------------------- C4

Kinds == [i \in 1..Len(stdout) |-> stdout[i].kind]

\* C4: the first 'downloading' event of a session is always printed, and a
\* burst of k >= 1 'downloading' events, all less than 0.5 s from the first,
\* followed by one 'finished' event prints exactly one status line and one
\* completion line.
C4_BurstPrintsOnce ==
    /\ call.d.status = "downloading" /\ events.downloading = 1 =>
            call.out # <<>> /\ call.out[1].kind = "status"
    /\ (/\ call.d.status = "finished"
        /\ events.finished = 1
        /\ events.other = 0
        /\ events.downloading >= 1
        /\ burst.near)
       => Kinds = <<"status", "completed">>

\* ---------------------------------------------------------------- C10

\* The label of the item an event belongs to.
ItemLabel(idict) ==
    IF Truthy(idict.playlist_index) /\ Truthy(idict.playlist_count)
    THEN LabelText(idict.playlist_index, idict.playlist_count)
    ELSE <<>>

\* C10: when 'finished' arrives for item i of a playlist, current_video_info
\* is "[i/count] " (and empty for an item without a playlist index), also when
\* the 'downloading' events of the item were dropped or there were none.
C10_LabelIdentifiesItem ==
    call.d.status = "finished" /\ InfoDict(call.d).tag = "dict"
        => current_video_info = ItemLabel(InfoDict(call.d))

\* ------------------------------------------ the hook on well-typed events

\* As long as every event of the session was a plain one, with its fields
\* present and of their usual types (events.odd = 0), the hook has not raised,
\* and the statements of C1, C2 and C4 hold.
WellTypedNeverRaises == events.odd = 0 => call.raised = ""
WellTypedThrottleContract == events.odd = 0 => C1_ThrottleContract
WellTypedFinishedPrinted == events.odd = 0 => C2_FinishedAlwaysPrinted
WellTypedBurstPrintsOnce == events.odd = 0 => C4_BurstPrintsOnce

\* ----------------------------------------------------------------- C7

MainOrder ==
    <<"check_dependencies", "get_content_info", "display_content_info", "select_format",
      "download_content">>

\* The run went through main (not a call of download_content on its own).
InMain == steps # <<>> /\ steps[1] = "check_dependencies"

Probed == \E i \in 1..Len(steps) : steps[i] = "get_content_info"

\* C7: main calls its steps in the order probe, summary, prompt, download, each
\* at most once; a download is started only after get_content_info returned a
\* descriptor, the summary was displayed and select_format returned a format;
\* when the probe gives no descriptor the process has exited with status 1, when
\* the user quits the prompt it has exited with status 0, and in both cases no
\* download was started.
C7_ProbeSummaryPromptFetch ==
    /\ InMain => steps = SubSeq(MainOrder, 1, Len(steps))
    /\ (InMain /\ download.started) =>
            /\ steps = MainOrder
            /\ info.tag = "dict"
            /\ summary # NoSummary
            /\ prompt.verdict = "selected"
            /\ format_id # NoFormat
            /\ download.format = format_id
    /\ (Probed /\ info.tag # "dict") =>
            pc = "exited" /\ exit_code = 1 /\ ~download.started
    /\ prompt.verdict = "quit" =>
            pc = "exited" /\ exit_code = 0 /\ ~download.started

\* C7 witness: main started a download after an invalid answer and a valid one.
C7_Witness ==
    /\ InMain
    /\ download.started
    /\ download.result = "0"
    /\ prompt.asked = 2
    /\ exit_code = 0

\* ----------------------------------------------------------------- C8

\* The resolver found nothing: no dictionary, an empty one, or a collection
\* without a valid (non-null) entry.
NothingValidFound(r) ==
    r.tag \in {"none", "empty"} \/ (HasEntries(r) /\ \A i \in 1..Len(r.entries) : ~r.entries[i])

\* C8: the probe starts no download, and whenever the resolver returned nothing
\* or a collection without a valid entry, get_content_info returned None, so
\* that no summary was displayed and no download started.
C8_NoValidItemsIsAnError ==
    /\ (Probed /\ steps[Len(steps)] = "get_content_info") => ~download.started
    /\ (Probed /\ NothingValidFound(probe)) =>
            /\ info.tag # "dict"
            /\ summary = NoSummary
            /\ ~download.started

\* ----------------------------------------------------------------- C9

\* C9: select_format returned the audio format only with has_ffmpeg true; with
\* has_ffmpeg false the answer 4 was rejected as invalid, no format was
\* selected and the prompt is open again (until the run ends); and a download
\* with the audio format was started only with has_ffmpeg true and the MP3
\* extraction post-processor configured.
C9_AudioOnlyWithFfmpeg ==
    /\ (prompt.verdict = "selected" /\ format_id = Audio) => has_ffmpeg
    /\ (prompt.verdict # "" /\ Strip(prompt.typed) = <<"4">> /\ ~has_ffmpeg) =>
            /\ prompt.verdict = "invalid"
            /\ format_id = NoFormat
            /\ pc \in {"select_format", "exited"}
            /\ ~download.started
    /\ (download.started /\ download.format = Audio) =>
            has_ffmpeg /\ download.postprocessors
    /\ (download.started /\ download.format # Audio) => ~download.postprocessors

\* C9 witness: without FFmpeg the answer 4 was rejected and the prompt is open.
C9_Witness ==
    /\ ~has_ffmpeg
    /\ prompt.typed = <<" ", "4", " ">>
    /\ prompt.verdict = "invalid"
    /\ pc = "select_format"

\* download_content was called on its own with the audio format and without
\* FFmpeg, and returned without starting a download.
AudioGuardTaken ==
    /\ ~InMain
    /\ steps = <<"download_content">>
    /\ format_id = Audio
    /\ ~has_ffmpeg
    /\ ~download.started
    /\ exit_code = 0

====
